---- MODULE Spec2Model ----
(***************************************************************************)
(* The rate-controlled emission engine of event-forge:                     *)
(* generate_events.py, main() from the validation of its arguments and     *)
(* generate_events_at_rate(), with the signals the process can receive,    *)
(* and the output plugins (terminal, file, kafka) the engine writes to;    *)
(* further the plugins driven on their own (FileSpec, KafkaSpec), the      *)
(* engine called without main (DirectSpec) or with its output redirected   *)
(* (PipedSpec), the plugin registry (RegistrySpec) and validate_schema.py  *)
(* (ValidateSpec).                                                         *)
(*                                                                         *)
(* Time is counted in ticks of 0.1 s; rates are those for which 1/rate,    *)
(* the interval between two deadlines, is a whole number of ticks (delay). *)
(***************************************************************************)
EXTENDS Integers, Sequences, FiniteSets, TLC

\* ---------------------------------------------------------------- bounds
MaxCount == 3      \* largest --count of a bounded run
MaxEvents == 3     \* cap on the events of a continuous run
MaxSignals == 2    \* signals delivered to the process
MaxDelay == 2      \* largest 1/rate, in ticks
MaxLag == 2        \* longest generate_event() + output(), in ticks
MaxTime == 4       \* the clock stops being advanced by lags here
MaxInterval == 2   \* largest --stats-interval, in ticks
MaxStrLen == 2     \* longest string field of a record given to a file plugin
MaxRecords == 2    \* most records given to a file plugin on its own
MaxLookups == 2    \* get_output_plugin calls made on the registry
MaxItems == 2      \* most items of a data file given to validate_schema.py

\* --------------------------------------------------------------- values
\* count: Optional[int] = None (continuous generation)
NoCount == -1

Signals == {"SIGINT", "SIGTERM"}

\* What signal.getsignal can return in this program
Handlers == {"signal_handler", "default_int_handler", "SIG_DFL", "SIG_IGN"}

\* The handlers of SIGINT and SIGTERM the program is started with: those of an
\* interactive start, and both signals ignored
StartHandlers == {<<"default_int_handler", "SIG_DFL">>, <<"SIG_IGN", "SIG_IGN">>}

\* Outcomes of a call of a collaborator
Outcomes == {"ok", "error", "kbd"}

\* Positions inside the try block of generate_events_at_rate
TryBody == {"loop", "gen", "out", "incr", "pace", "activity", "stats",
            "sleep_test", "sleep", "break_test"}

\* --output, choices=["terminal", "file", "kafka"]
OutputTypes == {"terminal", "file", "kafka"}

\* activity_update_interval = 0.1, in ticks
activity_update_interval == 1

\* Characters a string field is made of: a letter, and the three characters
\* json.dumps escapes
QUOTE == "\""
BACKSLASH == "\\"
NEWLINE == "\n"
Alphabet == {"n", QUOTE, BACKSLASH, NEWLINE}

\* The strings of at most MaxStrLen characters
Strings == UNION {[1..k -> Alphabet] : k \in 0..MaxStrLen}

\* Records a file plugin is given on its own: a dict with one string field
Events == [name : Strings]

\* The record the generator hands to the engine, which never looks into it
RunEvents == {[name |-> <<"n">>]}

\* Keys a configuration document of this model can hold: the two main
\* settings, security settings, an allow-listed producer key and a key the
\* plugin does not know
DocKeys == {"topic", "key_field", "security.protocol", "sasl.username",
            "sasl.password", "acks", "group_id"}

\* The value a document of this model has under a key
DocValue(k) ==
    CASE k = "topic" -> "t"
      [] k = "key_field" -> "name"
      [] OTHER -> "v"

Documents == {[k \in S |-> DocValue(k)] : S \in SUBSET DocKeys}

\* {}
EmptyDocument == [k \in {} |-> "v"]

\* A document without topic, key_field and bootstrap servers
PartialDocument == [k \in {"acks"} |-> DocValue(k)]

\* The keyword arguments main gives the plugin: config_file alone (the
\* defaults of __init__ stand in for the others), or the three inline options
\* with their command-line defaults
MainKwargs(kc) ==
    IF kc = "none"
    THEN [topic |-> "events", key_field |-> "id"]
    ELSE [topic |-> "events", key_field |-> "None"]

\* Inline parameters of a plugin built by other code
Kwargs == [topic : {"events"}, key_field : {"None", "id", "name"}]

\* Records given to a broker plugin on its own, without and with an id
KafkaEvents == {[name |-> <<"n">>], [id |-> <<"p">>, name |-> <<"n">>]}

\* What the file at args.output_path holds before the program starts
PreviousContent == <<"n", NEWLINE>>

\* Positions inside its finally block
Finally == {"restore_int", "restore_term", "summary", "close"}

VARIABLES
    pc,                 \* position of the single thread of control
    exc,                \* exception in flight: "none", "error", "kbd"
    exit_status,        \* "" while running, then "0", "1", "130", "killed"
    count,              \* args.count
    delay,              \* 1/rate in ticks; 0 when rate <= 0, as line 238 has it
    output_type,        \* args.output
    output_path,        \* args.output_path is given
    stats_interval,     \* args.stats_interval in ticks; 0 when it is <= 0
    KAFKA_AVAILABLE,    \* the kafka package could be imported
    kafka_config,       \* args.kafka_config: "none", or what the document holds
    isatty,             \* sys.stdout.isatty()
    document,           \* what json.load gives for the file of args.kafka_config
    kwargs,             \* topic and key_field given to KafkaOutputPlugin(...)
    sigint, sigterm,    \* the process's current handlers
    original_sigint, original_sigterm,
    i, events_generated, terminating,
    start_time, sleep_time,
    now,                \* time.time()
    sink_open,          \* the plugin object exists (file opened)
    written,            \* records in the sink: output() calls that returned
    output_calls,       \* output() calls made
    closes,             \* close() calls made on the plugin
    producer,           \* KafkaOutputPlugin.producer: "unset", "none", "live"
    topic, key_field,   \* KafkaOutputPlugin.topic, .key_field ("None" for None)
    self_kafka_config,  \* KafkaOutputPlugin.kafka_config
    sent,               \* messages given to producer.send, in order
    file_state,         \* FileOutputPlugin.file: "unset", "open", "closed"
    buffer,             \* characters written to the file object, not yet on disk
    file,               \* characters of the file on disk
    emitted,            \* records given to output() calls that returned
    would_send,         \* "[Kafka Output] Would send to topic ..." lines printed
    sends,              \* producer.send() calls
    flushes,            \* producer.flush() calls
    producer_closes,    \* producer.close() calls
    releases,           \* times the file handle was released
    last_stats_time, last_stats_count, stats_displayed, last_activity_update,
    stats_blocks,       \* statistics blocks printed
    activity_lines,     \* activity-indicator lines rewritten
    escapes,            \* writes of cursor-up and clear-line sequences
    notices,            \* "Generation interrupted by signal." lines printed
    user_notices,       \* "Generation interrupted by user." lines printed
    summaries,          \* "Generated N events ..." lines printed
    printed,            \* N of the last summary line (NoCount before)
    signals,            \* signals delivered so far
    stray,              \* a signal was delivered to a handler that is not the run's
    raised_at,          \* positions where a signal raised KeyboardInterrupt
    written_at_stop,    \* written when terminating was set
    _plugins,           \* OutputPluginRegistry._plugins: name -> class
    returned,           \* the mapping a get_available_plugins() caller holds
    shared,             \* that mapping is the registry's own dict object
    result,             \* how the last get_output_plugin call ended
    built,              \* plugin objects constructed through the registry
    lookups,            \* get_output_plugin calls made
    argv,               \* command line of validate_schema.py
    data,               \* items of the data file: "valid" or "invalid" each
    verdict             \* last line validate_schema.py printed

vars == <<pc, exc, exit_status, count, delay, output_type, output_path,
          stats_interval, KAFKA_AVAILABLE, kafka_config, isatty, document,
          kwargs, sigint, sigterm, original_sigint, original_sigterm, i, events_generated, terminating,
          start_time, sleep_time, now, sink_open, written, output_calls, closes,
          producer, topic, key_field, self_kafka_config, sent, file_state,
          buffer, file, emitted, would_send, sends, flushes, producer_closes, releases, last_stats_time, last_stats_count,
          stats_displayed, last_activity_update, stats_blocks, activity_lines,
          escapes, notices, user_notices, summaries, printed, signals, stray, raised_at,
          written_at_stop, _plugins, returned, shared, result, built, lookups,
          argv, data, verdict>>

config == <<count, delay, output_type, output_path, stats_interval,
            KAFKA_AVAILABLE, kafka_config, isatty, document, kwargs>>
handlers == <<sigint, sigterm>>
originals == <<original_sigint, original_sigterm>>
counters == <<i, events_generated>>
clock == <<start_time, sleep_time, now>>
kafka == <<producer, topic, key_field, self_kafka_config, sent, would_send,
           sends, flushes, producer_closes>>
disk == <<file_state, buffer, file, emitted, releases>>
plugin == <<kafka, disk>>
sink == <<sink_open, written, output_calls, closes, plugin>>
reporting == <<last_stats_time, last_stats_count, stats_displayed,
               last_activity_update, stats_blocks, activity_lines, escapes>>
stdout == <<notices, user_notices, summaries, printed>>
history == <<signals, stray, raised_at>>
registry == <<_plugins, returned, shared, result, built, lookups>>
tool == <<argv, data, verdict>>
apart == <<registry, tool>>

Max(a, b) == IF a >= b THEN a ELSE b

\* ---------------------------------------------------------------- apart
\* OutputPluginRegistry after the import of plugins.output.registry
BuiltIn ==
    [name \in {"terminal", "file", "kafka"} |->
        CASE name = "terminal" -> "TerminalOutputPlugin"
          [] name = "file" -> "FileOutputPlugin"
          [] name = "kafka" -> "KafkaOutputPlugin"]

\* No call made yet
NoResult == [kind |-> "unset", class |-> "", name |-> "", args |-> ""]

RegistryStart ==
    /\ _plugins = BuiltIn
    /\ returned = BuiltIn
    /\ shared = FALSE
    /\ result = NoResult
    /\ built = 0
    /\ lookups = 0

\* validate_schema.py not started
NoArgv == [positionals |-> 0, data_file |-> FALSE, kafka |-> FALSE]

ToolIdle ==
    /\ argv = NoArgv
    /\ data = <<>>
    /\ verdict = <<>>

\* ------------------------------------------------------------ expressions
\* The while condition without the test of the count
LoopCondNoCount(c, n, t) == ~t

\* The while condition without the test of terminating
LoopCondNoStop(c, n, t) == c = NoCount \/ n < c

\* while (count is None or i < count) and not terminating:
LoopCond(c, n, t) == (c = NoCount \/ n < c) /\ ~t

\* target_time, one interval short
TargetTimeEarly(st, n, d) == st + (n - 1) * d

\* target_time = start_time + (events_generated / rate)
TargetTime(st, n, d) == st + n * d

\* sleep_time = max(0, target_time - current_time)
SleepTime(target, cur) == Max(0, target - cur)

\* The test before time.sleep without the test of the count
ShouldSleepNoCount(s, c, n, t) == s > 0 /\ ~t

\* if sleep_time > 0 and (count is None or i < count) and not terminating:
ShouldSleep(s, c, n, t) == s > 0 /\ (c = NoCount \/ n < c) /\ ~t

\* if count is not None and i >= count: break
ReachedCount(c, n) == c # NoCount /\ n >= c

\* if args.output == "file" and not args.output_path, if args.stats_interval
\* <= 0: without the test of args.rate
ArgumentErrorNoRate(t, p, d, s) == (t = "file" /\ ~p) \/ s = 0

\* The three tests of main that end in parser.error
ArgumentError(t, p, d, s) == (t = "file" /\ ~p) \/ d = 0 \/ s = 0

\* should_display_stats, true for every plugin
StatsForEveryPlugin(t) == TRUE

\* should_display_stats = output_type != "TerminalOutputPlugin"
should_display_stats(t) == t # "terminal"

\* output() of a KafkaOutputPlugin that calls producer.send on None
OutputOutcomesNoFallback(t, prod) ==
    IF t = "kafka" /\ prod = "none" THEN {"error"} ELSE Outcomes

\* What an output() call can do: without a producer a KafkaOutputPlugin
\* prints and returns
OutputOutcomes(t, prod) ==
    IF t = "kafka" /\ prod = "none" THEN {"ok"} ELSE Outcomes

\* ------------------------------------------------- KafkaOutputPlugin
\* if config_file and os.path.exists(config_file): the document is read
HasDocument(kc) == kc # "none"

\* self.topic = config.get('topic', topic)
Topic(kc, doc, kw) ==
    IF HasDocument(kc) /\ "topic" \in DOMAIN doc THEN doc["topic"] ELSE kw.topic

\* self.key_field = config.get('key_field', key_field)
KeyField(kc, doc, kw) ==
    IF HasDocument(kc) /\ "key_field" \in DOMAIN doc
    THEN doc["key_field"] ELSE kw.key_field

\* The document's key a connection setting is taken from
SecurityKey(k) ==
    CASE k = "security_protocol" -> "security.protocol"
      [] k = "sasl_mechanism" -> "sasl.mechanisms"
      [] k = "sasl_plain_username" -> "sasl.username"
      [] k = "sasl_plain_password" -> "sasl.password"

\* connection_config, with the SASL user name taken without its password
ConnectionConfigEither(doc) ==
    LET keys == {k \in {"security_protocol", "sasl_mechanism",
                         "sasl_plain_username", "sasl_plain_password"} :
                    SecurityKey(k) \in DOMAIN doc}
    IN [k \in keys |-> doc[SecurityKey(k)]]

\* connection_config
ConnectionConfig(doc) ==
    LET both == {"sasl.username", "sasl.password"} \subseteq DOMAIN doc
        keys == {k \in {"security_protocol", "sasl_mechanism"} :
                    SecurityKey(k) \in DOMAIN doc}
                \cup IF both THEN {"sasl_plain_username", "sasl_plain_password"}
                              ELSE {}
    IN [k \in keys |-> doc[SecurityKey(k)]]

producer_keys == {"client_id", "acks", "retries", "retry_backoff_ms",
                  "batch_size", "linger_ms", "compression_type",
                  "max_in_flight_requests_per_connection", "request_timeout_ms"}

\* producer_config
ProducerConfig(doc) == [k \in producer_keys \cap DOMAIN doc |-> doc[k]]

\* {**a, **b}
Merge(a, b) ==
    [k \in DOMAIN a \cup DOMAIN b |-> IF k \in DOMAIN b THEN b[k] ELSE a[k]]

\* The default serializers: for values always, for keys with a key field
Serializers(kf) ==
    [k \in {"value_serializer"} \cup IF kf # "None" THEN {"key_serializer"} ELSE {}
        |-> IF k = "value_serializer" THEN "json.dumps" ELSE "str"]

\* self.kafka_config when KafkaProducer is called; main gives the plugin no
\* further keyword, so with or without a document nothing else is merged in
KafkaConfig(kc, doc, kw) ==
    Merge(Serializers(KeyField(kc, doc, kw)),
          IF HasDocument(kc)
          THEN Merge(ConnectionConfig(doc), ProducerConfig(doc))
          ELSE EmptyDocument)

\* None as a message key, and a key
NoKey == <<>>
Key(v) == <<v>>

\* The key of every message left out
MessageKeyNever(kf, event) == NoKey

\* key = None; if self.key_field and self.key_field in event: key = event[...]
MessageKey(kf, event) ==
    IF kf # "None" /\ kf \in DOMAIN event THEN Key(event[kf]) ELSE NoKey

\* ------------------------------------------------------------------ JSON
\* json.dumps of a character of a string
EscapeChar(c) ==
    CASE c = QUOTE -> <<BACKSLASH, QUOTE>>
      [] c = BACKSLASH -> <<BACKSLASH, BACKSLASH>>
      [] c = NEWLINE -> <<BACKSLASH, "n">>
      [] OTHER -> <<c>>

RECURSIVE Escape(_)
\* json.dumps of the characters of a string
Escape(str) ==
    IF str = <<>> THEN <<>> ELSE EscapeChar(Head(str)) \o Escape(Tail(str))

\* What json.dumps puts before and after the value of the field
ObjectOpen == <<"{", QUOTE, "n", "a", "m", "e", QUOTE, ":", " ", QUOTE>>
ObjectClose == <<QUOTE, "}">>

\* json.dumps(event) with the characters of the string left as they are
DumpsUnescaped(e) == ObjectOpen \o e.name \o ObjectClose

\* json.dumps(event)
Dumps(e) == ObjectOpen \o Escape(e.name) \o ObjectClose

\* self.file.write(json.dumps(event) + "\n")
FileWrite(b, e) == b \o Dumps(e) \o <<NEWLINE>>

\* json.loads rejects the text
Rejected == [ok |-> FALSE, val |-> <<>>]

RECURSIVE Unescape(_)
\* json.loads of the characters between the quotes of a string
Unescape(str) ==
    IF str = <<>> THEN [ok |-> TRUE, val |-> <<>>]
    ELSE IF Head(str) \in {QUOTE, NEWLINE} THEN Rejected
    ELSE IF Head(str) = BACKSLASH
    THEN IF Len(str) < 2 \/ str[2] \notin {QUOTE, BACKSLASH, "n"} THEN Rejected
         ELSE LET rest == Unescape(SubSeq(str, 3, Len(str)))
                  c == IF str[2] = "n" THEN NEWLINE ELSE str[2]
              IN IF rest.ok THEN [ok |-> TRUE, val |-> <<c>> \o rest.val]
                 ELSE Rejected
    ELSE LET rest == Unescape(Tail(str))
         IN IF rest.ok THEN [ok |-> TRUE, val |-> <<Head(str)>> \o rest.val]
            ELSE Rejected

\* json.loads(line)
Loads(line) ==
    LET n == Len(line)
        a == Len(ObjectOpen)
        z == Len(ObjectClose)
    IN IF /\ n >= a + z
          /\ SubSeq(line, 1, a) = ObjectOpen
          /\ SubSeq(line, n - z + 1, n) = ObjectClose
       THEN LET str == Unescape(SubSeq(line, a + 1, n - z))
            IN IF str.ok THEN [ok |-> TRUE, val |-> [name |-> str.val]]
               ELSE Rejected
       ELSE Rejected

\* Index of the first newline of f, 0 when there is none
FirstNewline(f) ==
    IF \E k \in 1..Len(f) : f[k] = NEWLINE
    THEN CHOOSE k \in 1..Len(f) :
            f[k] = NEWLINE /\ \A j \in 1..(k - 1) : f[j] # NEWLINE
    ELSE 0

RECURSIVE Lines(_)
\* for line in f: the lines of a text file, each with its newline
Lines(f) ==
    IF f = <<>> THEN <<>>
    ELSE LET k == FirstNewline(f)
         IN IF k = 0 THEN <<f>>
            ELSE <<SubSeq(f, 1, k)>> \o Lines(SubSeq(f, k + 1, Len(f)))

RECURSIVE Strip(_)
\* line.strip()
Strip(line) ==
    IF line = <<>> THEN <<>>
    ELSE IF Head(line) \in {NEWLINE, " "} THEN Strip(Tail(line))
    ELSE IF line[Len(line)] \in {NEWLINE, " "}
    THEN Strip(SubSeq(line, 1, Len(line) - 1))
    ELSE line

\* validate_json_lines: every line that is not blank is loaded by json.loads
validate_json_lines(f) ==
    \A k \in 1..Len(Lines(f)) :
        Strip(Lines(f)[k]) = <<>> \/ Loads(Strip(Lines(f)[k])).ok

\* line_count of validate_json_lines
line_count(f) == Cardinality({k \in 1..Len(Lines(f)) : Strip(Lines(f)[k]) # <<>>})

\* Where a KeyboardInterrupt raised at position p takes control
RaiseTarget(p) ==
    CASE p \in {"args", "create", "opened"} -> "exit"
      [] p \in {"init", "install_int", "install_term"} -> "main_finally"
      [] p \in TryBody -> "except"
      [] p = "except" -> "restore_int"
      [] p \in Finally -> "main_finally"
      [] OTHER -> "exit"

\* ----------------------------------------------------------------- Init
\* python generate_events.py with any arguments, before main has run
MainStart ==
    /\ pc = "args"
    /\ exc = "none"
    /\ exit_status = ""
    /\ count \in {NoCount} \cup (0..MaxCount)
    /\ delay \in 0..MaxDelay
    /\ output_type \in OutputTypes
    /\ output_path \in IF output_type = "file" THEN BOOLEAN ELSE {FALSE}
    /\ stats_interval \in 0..MaxInterval
    /\ KAFKA_AVAILABLE \in IF output_type = "kafka" THEN BOOLEAN ELSE {TRUE}
    /\ kafka_config \in IF output_type = "kafka" /\ KAFKA_AVAILABLE
                         THEN {"none", "partial"} ELSE {"none"}
    /\ document = IF kafka_config = "none" THEN EmptyDocument ELSE PartialDocument
    /\ kwargs = MainKwargs(kafka_config)
    /\ \E h \in StartHandlers : sigint = h[1] /\ sigterm = h[2]
    /\ original_sigint = "unset"
    /\ original_sigterm = "unset"
    /\ i = 0
    /\ events_generated = 0
    /\ terminating = FALSE
    /\ start_time = 0
    /\ sleep_time = 0
    /\ now = 0
    /\ sink_open = FALSE
    /\ written = 0
    /\ output_calls = 0
    /\ closes = 0
    /\ producer = "unset"
    /\ topic = "unset"
    /\ key_field = "unset"
    /\ self_kafka_config = EmptyDocument
    /\ sent = <<>>
    /\ file_state = "unset"
    /\ buffer = <<>>
    /\ file = PreviousContent
    /\ emitted = <<>>
    /\ would_send = 0
    /\ sends = 0
    /\ flushes = 0
    /\ producer_closes = 0
    /\ releases = 0
    /\ last_stats_time = 0
    /\ last_stats_count = 0
    /\ stats_displayed = FALSE
    /\ last_activity_update = 0
    /\ stats_blocks = 0
    /\ activity_lines = 0
    /\ escapes = 0
    /\ notices = 0
    /\ user_notices = 0
    /\ summaries = 0
    /\ printed = NoCount
    /\ signals = 0
    /\ stray = FALSE
    /\ raised_at = {}
    /\ written_at_stop = 0
    /\ RegistryStart
    /\ ToolIdle

\* The program started with its standard output on a terminal
Init == MainStart /\ isatty = TRUE

\* ----------------------------------------------------------------- main
\* The argument tests of main: parser.error exits with status 2
ValidateArgs ==
    /\ pc = "args"
    /\ IF ArgumentError(output_type, output_path, delay, stats_interval)
       THEN pc' = "exit" /\ exit_status' = "2"
       ELSE pc' = "create" /\ UNCHANGED exit_status
    /\ UNCHANGED <<exc, config, apart, handlers, originals, counters, terminating,
                   clock, sink, stdout, history, written_at_stop, reporting>>

\* FileOutputPlugin.__init__: open(file_path, 'w') truncates the file, or raises
FileOutputPlugin_init ==
    \E ok \in BOOLEAN :
        IF ok
        THEN /\ pc' = "opened"
             /\ sink_open' = TRUE
             /\ file_state' = "open"
             /\ buffer' = <<>>
             /\ file' = <<>>
             /\ UNCHANGED <<exc, exit_status, emitted, releases, kafka>>
        ELSE /\ pc' = "exit"
             /\ exc' = "error"
             /\ exit_status' = "1"
             /\ UNCHANGED <<sink_open, plugin>>

\* KafkaOutputPlugin.__init__: without the package the inline topic and key
\* field are kept and nothing is read; otherwise they and kafka_config come
\* from the document or the parameters, and when KafkaProducer(...) raises the
\* plugin is built with producer = None
KafkaOutputPlugin_init ==
    \E connected \in BOOLEAN :
        /\ producer' = IF KAFKA_AVAILABLE /\ connected THEN "live" ELSE "none"
        /\ IF KAFKA_AVAILABLE
           THEN /\ topic' = Topic(kafka_config, document, kwargs)
                /\ key_field' = KeyField(kafka_config, document, kwargs)
                /\ self_kafka_config' = KafkaConfig(kafka_config, document, kwargs)
           ELSE /\ topic' = kwargs.topic
                /\ key_field' = kwargs.key_field
                /\ UNCHANGED self_kafka_config
        /\ pc' = "opened"
        /\ sink_open' = TRUE
        /\ UNCHANGED <<exc, exit_status, sent, would_send, sends, flushes,
                       producer_closes, disk>>

\* output_plugin = get_output_plugin(args.output, **output_kwargs)
CreatePlugin ==
    /\ pc = "create"
    /\ CASE output_type = "file" -> FileOutputPlugin_init
         [] output_type = "kafka" -> KafkaOutputPlugin_init
         [] OTHER -> /\ pc' = "opened"
                     /\ sink_open' = TRUE
                     /\ UNCHANGED <<exc, exit_status, plugin>>
    /\ UNCHANGED <<config, apart, handlers, originals, counters, terminating, clock,
                   written, output_calls, closes, stdout, history, written_at_stop,
                   reporting>>

\* FileOutputPlugin.output: self.file.write(json.dumps(event) + "\n")
FileOutputPlugin_output(event) ==
    /\ buffer' = FileWrite(buffer, event)
    /\ emitted' = Append(emitted, event)
    /\ UNCHANGED <<file_state, file, releases, kafka>>

\* KafkaOutputPlugin.output: without a producer the "Would send" line is
\* printed, otherwise producer.send(topic, key, value) is called
KafkaOutputPlugin_output(event) ==
    /\ IF ~KAFKA_AVAILABLE \/ producer = "none"
       THEN would_send' = would_send + 1 /\ UNCHANGED <<sends, sent>>
       ELSE /\ sends' = sends + 1
            /\ sent' = Append(sent, [topic |-> topic,
                                     key |-> MessageKey(key_field, event),
                                     value |-> event])
            /\ UNCHANGED would_send
    /\ emitted' = Append(emitted, event)
    /\ UNCHANGED <<producer, topic, key_field, self_kafka_config, flushes,
                   producer_closes, file_state, buffer, file, releases>>

\* TerminalOutputPlugin.output: the record and a rule are printed
TerminalOutputPlugin_output(event) == UNCHANGED plugin

\* output_plugin.output(event), when it returns
PluginOutput(event) ==
    CASE output_type = "file" -> FileOutputPlugin_output(event)
      [] output_type = "kafka" -> KafkaOutputPlugin_output(event)
      [] OTHER -> TerminalOutputPlugin_output(event)

\* FileOutputPlugin.close: if self.file: self.file.close(); closing the file
\* object writes its buffer out and releases the handle, closing it again
\* does nothing
FileOutputPlugin_close ==
    /\ file_state' = "closed"
    /\ file' = file \o buffer
    /\ buffer' = <<>>
    /\ releases' = IF file_state = "open" THEN releases + 1 ELSE releases
    /\ UNCHANGED <<emitted, kafka>>

\* KafkaOutputPlugin.close: if KAFKA_AVAILABLE and self.producer: flush(), close()
KafkaOutputPlugin_close ==
    /\ IF KAFKA_AVAILABLE /\ producer = "live"
       THEN /\ flushes' = flushes + 1
            /\ producer_closes' = producer_closes + 1
       ELSE UNCHANGED <<flushes, producer_closes>>
    /\ UNCHANGED <<producer, topic, key_field, self_kafka_config, sent,
                   would_send, sends, disk>>

\* TerminalOutputPlugin.close: pass
TerminalOutputPlugin_close == UNCHANGED plugin

\* output_plugin.close()
PluginClose ==
    CASE output_type = "file" -> FileOutputPlugin_close
      [] output_type = "kafka" -> KafkaOutputPlugin_close
      [] OTHER -> TerminalOutputPlugin_close

\* try: generate_events_at_rate(generator, output_plugin, ...)
EnterTry ==
    /\ pc = "opened"
    /\ pc' = "init"
    /\ UNCHANGED <<exc, exit_status, config, apart, handlers, originals, counters,
                   terminating, clock, sink, stdout, history, written_at_stop, reporting>>

\* finally: output_plugin.close()
MainFinally ==
    /\ pc = "main_finally"
    /\ closes' = closes + 1
    /\ PluginClose
    /\ pc' = "exit"
    /\ exit_status' = CASE exc = "none" -> "0"
                        [] exc = "kbd" -> "130"
                        [] OTHER -> "1"
    /\ UNCHANGED <<exc, config, apart, handlers, originals, counters, terminating, clock,
                   sink_open, written, output_calls, stdout, history, written_at_stop, reporting>>

\* ------------------------------------------------ generate_events_at_rate
\* From the first print to original_sigterm = signal.getsignal(SIGTERM)
RunInit ==
    /\ pc = "init"
    /\ start_time' = now
    /\ events_generated' = 0
    /\ last_stats_time' = now
    /\ last_stats_count' = 0
    /\ stats_displayed' = FALSE
    /\ last_activity_update' = now
    /\ terminating' = FALSE
    /\ original_sigint' = sigint
    /\ original_sigterm' = sigterm
    /\ pc' = "install_int"
    /\ UNCHANGED <<exc, exit_status, config, apart, handlers, i, sleep_time, now, sink,
                   stdout, history, written_at_stop, stats_blocks, activity_lines,
                   escapes>>

\* signal.signal(signal.SIGINT, signal_handler)
InstallSigint ==
    /\ pc = "install_int"
    /\ sigint' = "signal_handler"
    /\ pc' = "install_term"
    /\ UNCHANGED <<exc, exit_status, config, apart, sigterm, originals, counters,
                   terminating, clock, sink, stdout, history, written_at_stop, reporting>>

\* signal.signal(signal.SIGTERM, signal_handler); try: i = 0
InstallSigterm ==
    /\ pc = "install_term"
    /\ sigterm' = "signal_handler"
    /\ i' = 0
    /\ pc' = "loop"
    /\ UNCHANGED <<exc, exit_status, config, apart, sigint, originals, events_generated,
                   terminating, clock, sink, stdout, history, written_at_stop, reporting>>

\* The while test; a continuous run is cut off at MaxEvents
LoopTest ==
    /\ pc = "loop"
    /\ (count = NoCount /\ ~terminating) => i < MaxEvents
    /\ pc' = IF LoopCond(count, i, terminating) THEN "gen" ELSE "restore_int"
    /\ UNCHANGED <<exc, exit_status, config, apart, handlers, originals, counters,
                   terminating, clock, sink, stdout, history, written_at_stop, reporting>>

\* event = generator.generate_event()
GenerateEvent ==
    /\ pc = "gen"
    /\ \E outcome \in Outcomes :
        CASE outcome = "ok" -> pc' = "out" /\ UNCHANGED exc
          [] outcome = "error" -> pc' = "restore_int" /\ exc' = "error"
          [] outcome = "kbd" -> pc' = "except" /\ UNCHANGED exc
    /\ UNCHANGED <<exit_status, config, apart, handlers, originals, counters,
                   terminating, clock, sink, stdout, history, written_at_stop, reporting>>

\* output_plugin.output(event), counted before it is known to have succeeded
OutputCountedFirst ==
    /\ pc = "out"
    /\ output_calls' = output_calls + 1
    /\ events_generated' = events_generated + 1
    /\ \E outcome \in OutputOutcomes(output_type, producer), lag \in 0..MaxLag,
          event \in RunEvents :
        /\ lag > 0 => now + lag <= MaxTime
        /\ now' = now + lag
        /\ CASE outcome = "ok" ->
                  /\ written' = written + 1
                  /\ PluginOutput(event)
                  /\ pc' = "pace"
                  /\ i' = i + 1
                  /\ UNCHANGED exc
             [] outcome = "error" ->
                  /\ pc' = "restore_int"
                  /\ exc' = "error"
                  /\ UNCHANGED <<written, i, plugin>>
             [] outcome = "kbd" ->
                  /\ pc' = "except"
                  /\ UNCHANGED <<written, exc, i, plugin>>
    /\ UNCHANGED <<exit_status, config, apart, handlers, originals, terminating,
                   start_time, sleep_time, sink_open, closes, stdout, history,
                   written_at_stop, reporting>>

\* output_plugin.output(event), tried again when it raises
OutputRetried ==
    /\ pc = "out"
    /\ output_calls' = output_calls + 1
    /\ \E outcome \in OutputOutcomes(output_type, producer), lag \in 0..MaxLag,
          event \in RunEvents :
        /\ lag > 0 => now + lag <= MaxTime
        /\ now' = now + lag
        /\ CASE outcome = "ok" ->
                  /\ written' = written + 1
                  /\ PluginOutput(event)
                  /\ pc' = "incr"
                  /\ UNCHANGED exc
             [] outcome = "error" ->
                  /\ output_calls < MaxEvents + MaxCount
                  /\ pc' = "out"
                  /\ UNCHANGED <<written, exc, plugin>>
             [] outcome = "kbd" ->
                  /\ pc' = "except"
                  /\ UNCHANGED <<written, exc, plugin>>
    /\ UNCHANGED <<exit_status, config, apart, handlers, originals, counters, terminating,
                   start_time, sleep_time, sink_open, closes, stdout, history,
                   written_at_stop, reporting>>

\* output_plugin.output(event)
Output ==
    /\ pc = "out"
    /\ output_calls' = output_calls + 1
    /\ \E outcome \in OutputOutcomes(output_type, producer), lag \in 0..MaxLag,
          event \in RunEvents :
        /\ lag > 0 => now + lag <= MaxTime
        /\ now' = now + lag
        /\ CASE outcome = "ok" ->
                  /\ written' = written + 1
                  /\ PluginOutput(event)
                  /\ pc' = "incr"
                  /\ UNCHANGED exc
             [] outcome = "error" ->
                  /\ pc' = "restore_int"
                  /\ exc' = "error"
                  /\ UNCHANGED <<written, plugin>>
             [] outcome = "kbd" ->
                  /\ pc' = "except"
                  /\ UNCHANGED <<written, exc, plugin>>
    /\ UNCHANGED <<exit_status, config, apart, handlers, originals, counters, terminating,
                   start_time, sleep_time, sink_open, closes, stdout, history,
                   written_at_stop, reporting>>

\* events_generated += 1; i += 1, with the counter bumped a second time
IncrementTwice ==
    /\ pc = "incr"
    /\ events_generated' = events_generated + 2
    /\ i' = i + 1
    /\ pc' = "pace"
    /\ UNCHANGED <<exc, exit_status, config, apart, handlers, originals, terminating,
                   clock, sink, stdout, history, written_at_stop, reporting>>

\* events_generated += 1; i += 1
Increment ==
    /\ pc = "incr"
    /\ events_generated' = events_generated + 1
    /\ i' = i + 1
    /\ pc' = "pace"
    /\ UNCHANGED <<exc, exit_status, config, apart, handlers, originals, terminating,
                   clock, sink, stdout, history, written_at_stop, reporting>>

\* target_time, current_time = time.time(), sleep_time; rate is 0 only when
\* the function is called without main, and events_generated / rate raises
Pace ==
    /\ pc = "pace"
    /\ IF delay = 0
       THEN /\ exc' = "ZeroDivisionError"
            /\ pc' = "restore_int"
            /\ UNCHANGED sleep_time
       ELSE /\ sleep_time' = SleepTime(TargetTime(start_time, events_generated,
                                                  delay), now)
            /\ pc' = "activity"
            /\ UNCHANGED exc
    /\ UNCHANGED <<exit_status, config, apart, handlers, originals, counters,
                   terminating, start_time, now, sink, stdout, history,
                   written_at_stop, reporting>>

\* if should_display_stats and stats_displayed and current_time -
\* last_activity_update >= activity_update_interval: sys.stdout.write of
\* "\033[1A\033[2K", then the indicator is printed again
Activity ==
    /\ pc = "activity"
    /\ IF /\ should_display_stats(output_type)
          /\ stats_displayed
          /\ now - last_activity_update >= activity_update_interval
       THEN /\ escapes' = escapes + 1
            /\ activity_lines' = activity_lines + 1
            /\ last_activity_update' = now
       ELSE UNCHANGED <<escapes, activity_lines, last_activity_update>>
    /\ pc' = "stats"
    /\ UNCHANGED <<exc, exit_status, config, apart, handlers, originals, counters,
                   terminating, clock, sink, stdout, history, written_at_stop,
                   last_stats_time, last_stats_count, stats_displayed,
                   stats_blocks>>

\* move_cursor_up_and_clear(stats_lines): if not sys.stdout.isatty(): return
move_cursor_up_and_clear ==
    escapes' = IF isatty THEN escapes + 1 ELSE escapes

\* The statistics block printed at every check, whatever the time since the
\* last one
StatsEveryCheck ==
    /\ pc = "stats"
    /\ IF should_display_stats(output_type)
       THEN /\ IF stats_displayed
               THEN move_cursor_up_and_clear
               ELSE UNCHANGED escapes
            /\ stats_blocks' = stats_blocks + 1
            /\ stats_displayed' = TRUE
            /\ last_stats_time' = now
            /\ last_stats_count' = events_generated
       ELSE UNCHANGED <<stats_blocks, stats_displayed, last_stats_time,
                        last_stats_count, escapes>>
    /\ pc' = "sleep_test"
    /\ UNCHANGED <<exc, exit_status, config, apart, handlers, originals, counters,
                   terminating, clock, sink, stdout, history, written_at_stop,
                   last_activity_update, activity_lines>>

\* if should_display_stats and current_time - last_stats_time >= stats_interval:
\* the statistics block is printed and the stats counters are reset
Stats ==
    /\ pc = "stats"
    /\ IF /\ should_display_stats(output_type)
          /\ now - last_stats_time >= stats_interval
       THEN /\ IF stats_displayed
               THEN move_cursor_up_and_clear
               ELSE UNCHANGED escapes
            /\ stats_blocks' = stats_blocks + 1
            /\ stats_displayed' = TRUE
            /\ last_stats_time' = now
            /\ last_stats_count' = events_generated
       ELSE UNCHANGED <<stats_blocks, stats_displayed, last_stats_time,
                        last_stats_count, escapes>>
    /\ pc' = "sleep_test"
    /\ UNCHANGED <<exc, exit_status, config, apart, handlers, originals, counters,
                   terminating, clock, sink, stdout, history, written_at_stop,
                   last_activity_update, activity_lines>>

\* if sleep_time > 0 and (count is None or i < count) and not terminating:
SleepTest ==
    /\ pc = "sleep_test"
    /\ pc' = IF ShouldSleep(sleep_time, count, i, terminating)
             THEN "sleep" ELSE "break_test"
    /\ UNCHANGED <<exc, exit_status, config, apart, handlers, originals, counters,
                   terminating, clock, sink, stdout, history, written_at_stop, reporting>>

\* time.sleep(sleep_time) returns
Sleep ==
    /\ pc = "sleep"
    /\ now' = now + sleep_time
    /\ pc' = "break_test"
    /\ UNCHANGED <<exc, exit_status, config, apart, handlers, originals, counters,
                   terminating, start_time, sleep_time, sink, stdout, history,
                   written_at_stop, reporting>>

\* The end of an iteration with output_plugin.close() inside the loop
BreakTestClosing ==
    /\ pc = "break_test"
    /\ closes' = closes + 1
    /\ PluginClose
    /\ pc' = IF ReachedCount(count, i) THEN "restore_int" ELSE "loop"
    /\ UNCHANGED <<exc, exit_status, config, apart, handlers, originals, counters,
                   terminating, clock, sink_open, written, output_calls, stdout,
                   history, written_at_stop, reporting>>

\* if count is not None and i >= count: break
BreakTest ==
    /\ pc = "break_test"
    /\ pc' = IF ReachedCount(count, i) THEN "restore_int" ELSE "loop"
    /\ UNCHANGED <<exc, exit_status, config, apart, handlers, originals, counters,
                   terminating, clock, sink, stdout, history, written_at_stop, reporting>>

\* except KeyboardInterrupt: print("\nGeneration interrupted by user.")
ExceptKeyboardInterrupt ==
    /\ pc = "except"
    /\ user_notices' = user_notices + 1
    /\ pc' = "restore_int"
    /\ UNCHANGED <<exc, exit_status, config, apart, handlers, originals, counters,
                   terminating, clock, sink, notices, summaries, printed, history,
                   written_at_stop, reporting>>

\* finally: signal.signal(signal.SIGINT, original_sigint)
RestoreSigint ==
    /\ pc = "restore_int"
    /\ sigint' = original_sigint
    /\ pc' = "restore_term"
    /\ UNCHANGED <<exc, exit_status, config, apart, sigterm, originals, counters,
                   terminating, clock, sink, stdout, history, written_at_stop, reporting>>

\* signal.signal(signal.SIGTERM, original_sigterm)
RestoreSigterm ==
    /\ pc = "restore_term"
    /\ sigterm' = original_sigterm
    /\ pc' = "summary"
    /\ UNCHANGED <<exc, exit_status, config, apart, sigint, originals, counters,
                   terminating, clock, sink, stdout, history, written_at_stop, reporting>>

\* end_time ... print(f"Generated {events_generated} events ..."), actual rate
Summary ==
    /\ pc = "summary"
    /\ summaries' = summaries + 1
    /\ printed' = events_generated
    /\ pc' = "close"
    /\ UNCHANGED <<exc, exit_status, config, apart, handlers, originals, counters,
                   terminating, clock, sink, notices, user_notices, history,
                   written_at_stop, reporting>>

\* output_plugin.close(), then the function returns or the exception goes on
ClosePlugin ==
    /\ pc = "close"
    /\ closes' = closes + 1
    /\ PluginClose
    /\ pc' = "main_finally"
    /\ UNCHANGED <<exc, exit_status, config, apart, handlers, originals, counters,
                   terminating, clock, sink_open, written, output_calls, stdout,
                   history, written_at_stop, reporting>>

\* -------------------------------------------------------------- signals
\* def signal_handler(sig, frame), without the test of terminating
signal_handler_unguarded ==
    /\ terminating' = TRUE
    /\ notices' = notices + 1
    /\ written_at_stop' = IF terminating THEN written_at_stop ELSE written
    /\ UNCHANGED <<pc, exc, exit_status, raised_at>>

\* def signal_handler(sig, frame)
signal_handler ==
    /\ terminating' = TRUE
    /\ notices' = IF terminating THEN notices ELSE notices + 1
    /\ written_at_stop' = IF terminating THEN written_at_stop ELSE written
    /\ UNCHANGED <<pc, exc, exit_status, raised_at>>

\* signal.default_int_handler: KeyboardInterrupt at the current position
default_int_handler ==
    /\ pc' = RaiseTarget(pc)
    /\ raised_at' = raised_at \cup {pc}
    /\ exc' = IF pc \in TryBody THEN exc ELSE "kbd"
    /\ exit_status' = IF RaiseTarget(pc) = "exit" THEN "130" ELSE exit_status
    /\ UNCHANGED <<terminating, notices, written_at_stop, reporting>>

\* SIG_DFL: the process is terminated by the signal
SIG_DFL ==
    /\ pc' = "exit"
    /\ exit_status' = "killed"
    /\ UNCHANGED <<terminating, notices, written_at_stop, exc, raised_at>>

\* SIG_IGN
SIG_IGN ==
    UNCHANGED <<pc, exc, exit_status, terminating, notices, written_at_stop, raised_at>>

\* The process receives sig; Python runs the handler between two statements
Signal(sig) ==
    /\ pc # "exit"
    /\ signals < MaxSignals
    /\ signals' = signals + 1
    /\ LET h == IF sig = "SIGINT" THEN sigint ELSE sigterm IN
        /\ stray' = (stray \/ h # "signal_handler")
        /\ CASE h = "signal_handler" -> signal_handler
             [] h = "default_int_handler" -> default_int_handler
             [] h = "SIG_DFL" -> SIG_DFL
             [] OTHER -> SIG_IGN
    /\ UNCHANGED <<config, apart, handlers, originals, counters, clock, sink,
                   user_notices, summaries, printed, reporting>>

Deliver == \E sig \in Signals : Signal(sig)

Next ==
    \/ ValidateArgs
    \/ CreatePlugin
    \/ EnterTry
    \/ RunInit
    \/ InstallSigint
    \/ InstallSigterm
    \/ LoopTest
    \/ GenerateEvent
    \/ Output
    \/ Increment
    \/ Pace
    \/ Activity
    \/ Stats
    \/ SleepTest
    \/ Sleep
    \/ BreakTest
    \/ ExceptKeyboardInterrupt
    \/ RestoreSigint
    \/ RestoreSigterm
    \/ Summary
    \/ ClosePlugin
    \/ MainFinally
    \/ Deliver

Spec == Init /\ [][Next]_vars

\* ------------------------------------------------ a file plugin on its own
\* A FileOutputPlugin driven directly: output() calls with any records, then
\* close(), as validate_json_lines finds the file afterwards

\* What no method of the plugin touches
engine == <<pc, exc, exit_status, config, apart, handlers, originals, counters,
            terminating, clock, stdout, history, written_at_stop, reporting>>

\* plugin = FileOutputPlugin(file_path) has returned
FilePluginInit ==
    /\ pc = "plugin"
    /\ exc = "none"
    /\ exit_status = ""
    /\ count = NoCount
    /\ delay = MaxDelay
    /\ output_type = "file"
    /\ output_path = TRUE
    /\ stats_interval = MaxInterval
    /\ KAFKA_AVAILABLE = TRUE
    /\ kafka_config = "none"
    /\ isatty = FALSE
    /\ document = EmptyDocument
    /\ kwargs = MainKwargs("none")
    /\ sigint = "default_int_handler"
    /\ sigterm = "SIG_DFL"
    /\ original_sigint = "unset"
    /\ original_sigterm = "unset"
    /\ i = 0
    /\ events_generated = 0
    /\ terminating = FALSE
    /\ start_time = 0
    /\ sleep_time = 0
    /\ now = 0
    /\ sink_open = TRUE
    /\ written = 0
    /\ output_calls = 0
    /\ closes = 0
    /\ producer = "unset"
    /\ topic = "unset"
    /\ key_field = "unset"
    /\ self_kafka_config = EmptyDocument
    /\ sent = <<>>
    /\ file_state = "open"
    /\ buffer = <<>>
    /\ file = <<>>
    /\ emitted = <<>>
    /\ would_send = 0
    /\ sends = 0
    /\ flushes = 0
    /\ producer_closes = 0
    /\ releases = 0
    /\ last_stats_time = 0
    /\ last_stats_count = 0
    /\ stats_displayed = FALSE
    /\ last_activity_update = 0
    /\ stats_blocks = 0
    /\ activity_lines = 0
    /\ escapes = 0
    /\ notices = 0
    /\ user_notices = 0
    /\ summaries = 0
    /\ printed = NoCount
    /\ signals = 0
    /\ stray = FALSE
    /\ raised_at = {}
    /\ written_at_stop = 0
    /\ RegistryStart
    /\ ToolIdle

\* plugin.output(event): the record stays in the buffer of the file object,
\* which these few records do not fill; on a closed file, write raises and
\* changes nothing
FileOutput ==
    /\ pc = "plugin"
    /\ file_state = "open"
    /\ Len(emitted) < MaxRecords
    /\ \E event \in Events : PluginOutput(event)
    /\ output_calls' = output_calls + 1
    /\ written' = written + 1
    /\ UNCHANGED <<engine, sink_open, closes>>

\* plugin.close(), a first and a second time
FileClose ==
    /\ pc = "plugin"
    /\ closes < 2
    /\ closes' = closes + 1
    /\ PluginClose
    /\ UNCHANGED <<engine, sink_open, written, output_calls>>

FileNext ==
    \/ FileOutput
    \/ FileClose

FileSpec == FilePluginInit /\ [][FileNext]_vars

\* ---------------------------------------------- a broker plugin on its own
\* KafkaOutputPlugin(config_file, topic=..., key_field=...) built by
\* get_output_plugin with any document and inline parameters, then output()
\* calls with records that have or lack an id, then close(); a config_file
\* that does not exist is the same as none
KafkaInit ==
    /\ pc = "create"
    /\ exc = "none"
    /\ exit_status = ""
    /\ count = NoCount
    /\ delay = MaxDelay
    /\ output_type = "kafka"
    /\ output_path = FALSE
    /\ stats_interval = MaxInterval
    /\ KAFKA_AVAILABLE \in BOOLEAN
    /\ kafka_config \in {"none", "file"}
    /\ isatty = FALSE
    /\ document \in IF kafka_config = "file" THEN Documents ELSE {EmptyDocument}
    /\ kwargs \in Kwargs
    /\ sigint = "default_int_handler"
    /\ sigterm = "SIG_DFL"
    /\ original_sigint = "unset"
    /\ original_sigterm = "unset"
    /\ i = 0
    /\ events_generated = 0
    /\ terminating = FALSE
    /\ start_time = 0
    /\ sleep_time = 0
    /\ now = 0
    /\ sink_open = FALSE
    /\ written = 0
    /\ output_calls = 0
    /\ closes = 0
    /\ producer = "unset"
    /\ topic = "unset"
    /\ key_field = "unset"
    /\ self_kafka_config = EmptyDocument
    /\ sent = <<>>
    /\ file_state = "unset"
    /\ buffer = <<>>
    /\ file = PreviousContent
    /\ emitted = <<>>
    /\ would_send = 0
    /\ sends = 0
    /\ flushes = 0
    /\ producer_closes = 0
    /\ releases = 0
    /\ last_stats_time = 0
    /\ last_stats_count = 0
    /\ stats_displayed = FALSE
    /\ last_activity_update = 0
    /\ stats_blocks = 0
    /\ activity_lines = 0
    /\ escapes = 0
    /\ notices = 0
    /\ user_notices = 0
    /\ summaries = 0
    /\ printed = NoCount
    /\ signals = 0
    /\ stray = FALSE
    /\ raised_at = {}
    /\ written_at_stop = 0
    /\ RegistryStart
    /\ ToolIdle

\* plugin.output(event) returns; a producer that was closed takes no message
KafkaOutput ==
    /\ pc = "opened"
    /\ closes = 0 \/ producer = "none"
    /\ Len(emitted) < MaxRecords
    /\ \E event \in KafkaEvents : PluginOutput(event)
    /\ output_calls' = output_calls + 1
    /\ written' = written + 1
    /\ UNCHANGED <<engine, sink_open, closes>>

\* plugin.close(), a first and a second time
KafkaClose ==
    /\ pc = "opened"
    /\ closes < 2
    /\ closes' = closes + 1
    /\ PluginClose
    /\ UNCHANGED <<engine, sink_open, written, output_calls>>

KafkaNext ==
    \/ CreatePlugin
    \/ KafkaOutput
    \/ KafkaClose

KafkaSpec == KafkaInit /\ [][KafkaNext]_vars

\* ------------------------------------------------- the plugin registry
\* The state of generate_events.py, but for pc and exit_status
run == <<exc, config, handlers, originals, counters, terminating, clock, sink,
         stdout, history, written_at_stop, reporting>>

\* generate_events.py is not running
AtRest ==
    /\ exc = "none"
    /\ count = NoCount
    /\ delay = MaxDelay
    /\ output_type = "terminal"
    /\ output_path = FALSE
    /\ stats_interval = MaxInterval
    /\ kafka_config = "none"
    /\ isatty = FALSE
    /\ document = EmptyDocument
    /\ kwargs = MainKwargs("none")
    /\ sigint = "default_int_handler"
    /\ sigterm = "SIG_DFL"
    /\ original_sigint = "unset"
    /\ original_sigterm = "unset"
    /\ i = 0
    /\ events_generated = 0
    /\ terminating = FALSE
    /\ start_time = 0
    /\ sleep_time = 0
    /\ now = 0
    /\ sink_open = FALSE
    /\ written = 0
    /\ output_calls = 0
    /\ closes = 0
    /\ producer = "unset"
    /\ topic = "unset"
    /\ key_field = "unset"
    /\ self_kafka_config = EmptyDocument
    /\ sent = <<>>
    /\ file_state = "unset"
    /\ buffer = <<>>
    /\ file = PreviousContent
    /\ emitted = <<>>
    /\ would_send = 0
    /\ sends = 0
    /\ flushes = 0
    /\ producer_closes = 0
    /\ releases = 0
    /\ last_stats_time = 0
    /\ last_stats_count = 0
    /\ stats_displayed = FALSE
    /\ last_activity_update = 0
    /\ stats_blocks = 0
    /\ activity_lines = 0
    /\ escapes = 0
    /\ notices = 0
    /\ user_notices = 0
    /\ summaries = 0
    /\ printed = NoCount
    /\ signals = 0
    /\ stray = FALSE
    /\ raised_at = {}
    /\ written_at_stop = 0

\* Names asked of the registry or registered, and classes registered
PluginNames == {"terminal", "file", "kafka", "custom"}
PluginClasses == {"TerminalOutputPlugin", "CustomPlugin"}

\* Keyword arguments of a call
PluginArgs == {"", "file_path"}

\* OutputPluginRegistry.get_plugin: None for an unknown name, else
\* cls._plugins[name](**kwargs), which returns the object or raises
get_plugin(reg, name, args, constructed) ==
    CASE name \notin DOMAIN reg ->
            [kind |-> "None", class |-> "", name |-> name, args |-> args]
      [] constructed ->
            [kind |-> "instance", class |-> reg[name], name |-> name, args |-> args]
      [] OTHER ->
            [kind |-> "raised", class |-> reg[name], name |-> name, args |-> args]

\* get_output_plugin without its test of the plugin
get_output_plugin_unchecked(reg, name, args, constructed) ==
    get_plugin(reg, name, args, constructed)

\* get_output_plugin: if not plugin: raise ValueError(...)
get_output_plugin(reg, name, args, constructed) ==
    LET got == get_plugin(reg, name, args, constructed) IN
        IF got.kind = "None"
        THEN [kind |-> "ValueError", class |-> "", name |-> name, args |-> args]
        ELSE got

\* A call of get_output_plugin(name, **kwargs) ends
CallGetOutputPlugin ==
    /\ pc = "registry"
    /\ lookups < MaxLookups
    /\ lookups' = lookups + 1
    /\ \E name \in PluginNames, args \in PluginArgs, constructed \in BOOLEAN :
        /\ result' = get_output_plugin(_plugins, name, args, constructed)
        /\ built' = IF name \in DOMAIN _plugins /\ constructed
                     THEN built + 1 ELSE built
    /\ UNCHANGED <<pc, exit_status, run, tool, _plugins, returned, shared>>

\* OutputPluginRegistry.register(name, plugin_class)
register ==
    /\ pc = "registry"
    /\ \E name \in {"terminal", "custom"}, class \in PluginClasses :
        _plugins' = [k \in DOMAIN _plugins \cup {name} |->
                        IF k = name THEN class ELSE _plugins[k]]
    /\ returned' = IF shared THEN _plugins' ELSE returned
    /\ UNCHANGED <<pc, exit_status, run, tool, shared, result, built, lookups>>

\* get_available_plugins giving out the registry's own dict
get_available_plugins_shared ==
    /\ pc = "registry"
    /\ returned' = _plugins
    /\ shared' = TRUE
    /\ UNCHANGED <<pc, exit_status, run, tool, _plugins, result, built, lookups>>

\* get_available_plugins: return cls._plugins.copy()
get_available_plugins ==
    /\ pc = "registry"
    /\ returned' = _plugins
    /\ shared' = FALSE
    /\ UNCHANGED <<pc, exit_status, run, tool, _plugins, result, built, lookups>>

\* The caller deletes an entry of the mapping it was given, or sets one
ChangeReturned ==
    /\ pc = "registry"
    /\ \E name \in PluginNames :
        \/ /\ name \in DOMAIN returned
           /\ returned' = [k \in DOMAIN returned \ {name} |-> returned[k]]
        \/ returned' = [k \in DOMAIN returned \cup {name} |->
                            IF k = name THEN "CustomPlugin" ELSE returned[k]]
    /\ _plugins' = IF shared THEN returned' ELSE _plugins
    /\ UNCHANGED <<pc, exit_status, run, tool, shared, result, built, lookups>>

RegistryInit ==
    /\ pc = "registry"
    /\ exit_status = ""
    /\ KAFKA_AVAILABLE = TRUE
    /\ AtRest
    /\ RegistryStart
    /\ ToolIdle

RegistryNext ==
    \/ CallGetOutputPlugin
    \/ register
    \/ get_available_plugins
    \/ ChangeReturned

RegistrySpec == RegistryInit /\ [][RegistryNext]_vars

\* ------------------------------------------------- validate_schema.py
\* Command lines: up to two positional arguments, with or without
\* --data-file <path> and --kafka
Argvs == [positionals : 0..2, data_file : BOOLEAN, kafka : BOOLEAN]

DataFiles == UNION {[1..k -> {"valid", "invalid"}] : k \in 0..MaxItems}

\* parser.parse_args(): one positional schema_file, and exactly one of
\* --data-file and --kafka
ParseError(a) ==
    \/ a.positionals # 1
    \/ a.data_file = a.kafka

AllValidLine == <<"All", "data", "is", "valid", "according", "to", "the", "schema!">>
FailedLine == <<"Validation", "failed.">>
ErrorLine == <<"Error", "loading", "JSON", "file">>
UsageLine == <<"usage:", "validate_schema.py">>
KafkaValidLine == <<"All", "consumed", "messages", "are", "valid", "according",
                    "to", "the", "schema!">>
KafkaFailedLine == <<"Validation", "failed", "for", "some", "messages.">>
KafkaMissingLine == <<"Error:", "kafka-python", "package", "is", "not", "installed.">>

\* args = parser.parse_args()
ParseArgs ==
    /\ pc = "v_args"
    /\ IF ParseError(argv)
       THEN pc' = "exit" /\ exit_status' = "2" /\ verdict' = UsageLine
       ELSE pc' = "v_schema" /\ UNCHANGED <<exit_status, verdict>>
    /\ UNCHANGED <<run, registry, argv, data>>

\* schema = load_json_file(schema_file): the schema, or sys.exit(1)
LoadSchema ==
    /\ pc = "v_schema"
    /\ \E loaded \in BOOLEAN :
        IF loaded
        THEN /\ pc' = IF argv.data_file THEN "v_data" ELSE "v_kafka"
             /\ UNCHANGED <<exit_status, verdict>>
        ELSE pc' = "exit" /\ exit_status' = "1" /\ verdict' = ErrorLine
    /\ UNCHANGED <<run, registry, argv, data>>

\* data = load_json_file(data_file): the items, or sys.exit(1)
LoadData ==
    /\ pc = "v_data"
    /\ \E loaded \in BOOLEAN :
        IF loaded
        THEN pc' = "v_validate" /\ UNCHANGED <<exit_status, verdict>>
        ELSE pc' = "exit" /\ exit_status' = "1" /\ verdict' = ErrorLine
    /\ UNCHANGED <<run, registry, argv, data>>

\* validate_data: every item is validated, the first that does not conform
\* ends it with False; a reference of the schema that cannot be read ends the
\* program with sys.exit(1)
ValidateData ==
    /\ pc = "v_validate"
    /\ pc' = "exit"
    /\ \E resolved \in BOOLEAN :
        CASE ~resolved -> exit_status' = "1" /\ verdict' = ErrorLine
          [] resolved /\ \A k \in 1..Len(data) : data[k] = "valid" ->
                exit_status' = "0" /\ verdict' = AllValidLine
          [] OTHER -> exit_status' = "1" /\ verdict' = FailedLine
    /\ UNCHANGED <<run, registry, argv, data>>

\* elif args.kafka: without the package 1; else what the consumed messages give
ValidateKafka ==
    /\ pc = "v_kafka"
    /\ pc' = "exit"
    /\ IF ~KAFKA_AVAILABLE
       THEN exit_status' = "1" /\ verdict' = KafkaMissingLine
       ELSE \E valid \in BOOLEAN :
                IF valid
                THEN exit_status' = "0" /\ verdict' = KafkaValidLine
                ELSE exit_status' = "1" /\ verdict' = KafkaFailedLine
    /\ UNCHANGED <<run, registry, argv, data>>

ValidateInit ==
    /\ pc = "v_args"
    /\ exit_status = ""
    /\ KAFKA_AVAILABLE \in BOOLEAN
    /\ AtRest
    /\ RegistryStart
    /\ argv \in Argvs
    /\ data \in DataFiles
    /\ verdict = <<>>

ValidateNext ==
    \/ ParseArgs
    \/ LoadSchema
    \/ LoadData
    \/ ValidateData
    \/ ValidateKafka

ValidateSpec == ValidateInit /\ [][ValidateNext]_vars

\* ------------------------------------- standard output not a terminal
\* The program started with its standard output redirected to a file or a
\* pipe, as run_tests.py starts it
PipedInit == MainStart /\ isatty = FALSE

PipedSpec == PipedInit /\ [][Next]_vars

\* ------------------------- generate_events_at_rate called without main
\* generate_events_at_rate(generator, output_plugin, count, rate) called by
\* other code with a plugin it has built and any rate >= 0 (delay = 0 is
\* rate = 0 here); when the function returns or raises, control is back in
\* the caller (pc = "main_finally")
DirectInit ==
    /\ pc = "init"
    /\ exc = "none"
    /\ exit_status = ""
    /\ count \in {NoCount} \cup (0..MaxCount)
    /\ delay \in 0..MaxDelay
    /\ output_type \in OutputTypes
    /\ output_path = (output_type = "file")
    /\ stats_interval \in 1..MaxInterval
    /\ KAFKA_AVAILABLE \in IF output_type = "kafka" THEN BOOLEAN ELSE {TRUE}
    /\ kafka_config = "none"
    /\ isatty \in BOOLEAN
    /\ document = EmptyDocument
    /\ kwargs = MainKwargs("none")
    /\ \E h \in StartHandlers : sigint = h[1] /\ sigterm = h[2]
    /\ original_sigint = "unset"
    /\ original_sigterm = "unset"
    /\ i = 0
    /\ events_generated = 0
    /\ terminating = FALSE
    /\ start_time = 0
    /\ sleep_time = 0
    /\ now = 0
    /\ sink_open = TRUE
    /\ written = 0
    /\ output_calls = 0
    /\ closes = 0
    /\ producer \in CASE output_type # "kafka" -> {"unset"}
                     [] KAFKA_AVAILABLE -> {"live", "none"}
                     [] OTHER -> {"none"}
    /\ topic = IF output_type = "kafka" THEN kwargs.topic ELSE "unset"
    /\ key_field = IF output_type = "kafka" THEN kwargs.key_field ELSE "unset"
    /\ self_kafka_config = IF output_type = "kafka" /\ KAFKA_AVAILABLE
                           THEN KafkaConfig(kafka_config, document, kwargs)
                           ELSE EmptyDocument
    /\ sent = <<>>
    /\ file_state = IF output_type = "file" THEN "open" ELSE "unset"
    /\ buffer = <<>>
    /\ file = IF output_type = "file" THEN <<>> ELSE PreviousContent
    /\ emitted = <<>>
    /\ would_send = 0
    /\ sends = 0
    /\ flushes = 0
    /\ producer_closes = 0
    /\ releases = 0
    /\ last_stats_time = 0
    /\ last_stats_count = 0
    /\ stats_displayed = FALSE
    /\ last_activity_update = 0
    /\ stats_blocks = 0
    /\ activity_lines = 0
    /\ escapes = 0
    /\ notices = 0
    /\ user_notices = 0
    /\ summaries = 0
    /\ printed = NoCount
    /\ signals = 0
    /\ stray = FALSE
    /\ raised_at = {}
    /\ written_at_stop = 0
    /\ RegistryStart
    /\ ToolIdle

DirectNext ==
    \/ RunInit
    \/ InstallSigint
    \/ InstallSigterm
    \/ LoopTest
    \/ GenerateEvent
    \/ Output
    \/ Increment
    \/ Pace
    \/ Activity
    \/ Stats
    \/ SleepTest
    \/ Sleep
    \/ BreakTest
    \/ ExceptKeyboardInterrupt
    \/ RestoreSigint
    \/ RestoreSigterm
    \/ Summary
    \/ ClosePlugin
    \/ Deliver

DirectSpec == DirectInit /\ [][DirectNext]_vars

\* ------------------------------------------------------------ positions
\* The run's handlers are installed from install_int to the end of the restores
RunPositions == {"install_term", "except", "restore_int", "restore_term"} \cup TryBody

\* Between the entry of generate_events_at_rate and its try block
BeforeTry == {"init", "install_int", "install_term"}

\* Draining: the except clause, the finally block and what follows it
Draining == {"except", "main_finally", "exit"} \cup Finally

\* No collaborator call raised and no signal was delivered
QuietRun == signals = 0 /\ exc = "none" /\ user_notices = 0

\* --------------------------------------------------------------- stdout
\* The lines the program prints, as sequences of words

\* The first prints of generate_events_at_rate
HeaderLines(c) ==
    IF c # NoCount
    THEN {<<"Generating", ToString(c), "random", "person", "events", "at", "a",
            "rate", "of", "R", "events/second...">>}
    ELSE {<<"Generating", "continuous", "random", "person", "events", "at", "a",
            "rate", "of", "R", "events/second...">>,
          <<"Press", "Ctrl+C", "to", "stop", "generation">>}

\* print("\nGeneration interrupted by signal.")
SignalNotice == <<"Generation", "interrupted", "by", "signal.">>

\* print("\nGeneration interrupted by user.")
UserNotice == <<"Generation", "interrupted", "by", "user.">>

\* The summary line, one wording whatever the count
SummaryLineAlwaysPlain(c, n) ==
    <<"Generated", ToString(n), "events", "in", "T", "seconds.">>

\* if count is not None: print(f"Generated {events_generated} events in ...")
\* else: print(f"... seconds before interruption.")
SummaryLine(c, n) ==
    IF c # NoCount
    THEN <<"Generated", ToString(n), "events", "in", "T", "seconds.">>
    ELSE <<"Generated", ToString(n), "events", "in", "T", "seconds", "before",
           "interruption.">>

\* print(f"Actual rate: {actual_rate:.2f} events/second")
RateLine == <<"Actual", "rate:", "A", "events/second">>

\* The lines of a statistics block that hold words, and the activity line
StatsLines ==
    {<<"EVENT", "GENERATOR", "STATS">>, <<"Timestamp:", "D">>,
     <<"Output", "plugin:", "P">>, <<"Total", "events", "generated:", "N">>,
     <<"Elapsed", "time:", "T", "seconds">>, <<"Events", "per", "second:">>,
     <<"Target", "rate:", "R">>, <<"Overall", "rate:", "A">>,
     <<"Current", "rate", "(last", "T", "s):", "A">>,
     <<"Memory", "usage:", "M", "MB">>,
     <<"Activity:", "Processing", "events...", "(N", "total)">>}

\* print(f"[Kafka Output] Would send to topic '{self.topic}': {json.dumps(event)}")
WouldSendLine ==
    <<"[Kafka", "Output]", "Would", "send", "to", "topic", "'events':", "J">>

\* Everything the program has printed so far
Transcript ==
    (IF original_sigint # "unset" THEN HeaderLines(count) ELSE {})
    \cup (IF notices > 0 THEN {SignalNotice} ELSE {})
    \cup (IF user_notices > 0 THEN {UserNotice} ELSE {})
    \cup (IF summaries > 0 THEN {SummaryLine(count, printed), RateLine} ELSE {})
    \cup (IF stats_blocks > 0 THEN StatsLines ELSE {})
    \cup (IF would_send > 0 THEN {WouldSendLine} ELSE {})

\* phrase in line
Contains(line, phrase) ==
    \E k \in 0..(Len(line) - Len(phrase)) :
        SubSeq(line, k + 1, k + Len(phrase)) = phrase

\* "Event generation interrupted" in output
Test10Text == <<"Event", "generation", "interrupted">>

\* The run was cancelled: a signal set terminating, or KeyboardInterrupt was
\* caught by the except clause
Cancelled == terminating \/ user_notices > 0

\* ---------------------------------------------------------------- claims

\* C1: a bounded run (count = n >= 0, any rate) in which no call raises and no
\* signal arrives calls output() exactly n times and ends with
\* events_generated = n, the number the summary line prints.
C1_BoundedRunEmitsCount ==
    (pc = "exit" /\ sink_open /\ count # NoCount /\ QuietRun)
        => /\ output_calls = count
           /\ written = count
           /\ events_generated = count
           /\ summaries = 1
           /\ printed = count

C1_Witness ==
    /\ pc = "exit"
    /\ count = MaxCount
    /\ QuietRun
    /\ output_calls = MaxCount
    /\ printed = MaxCount

\* C2: events_generated never decreases; it grows only by one, only in the
\* step that follows an output() call that returned, and every such call is
\* followed by that step; with a count configured it never exceeds the count.
C2_CounterLaw ==
    /\ [](count # NoCount => events_generated <= count)
    /\ [](IF pc = "incr" THEN written = events_generated + 1
                         ELSE written = events_generated)
    /\ [][\/ events_generated' = events_generated
          \/ /\ events_generated' = events_generated + 1
             /\ pc = "incr"
             /\ written = events_generated']_vars

C2_Witness ==
    /\ count = MaxCount
    /\ events_generated = MaxCount
    /\ written = MaxCount
    /\ pc = "pace"

\* C3: in a program run that ends by normal completion, count exhaustion or
\* cancellation, close() is called on the sink exactly once.
C3_ClosedExactlyOnce ==
    (pc = "exit" /\ sink_open /\ exit_status = "0") => closes = 1

\* C4: when generate_events_at_rate returns or propagates, whatever way the
\* loop was left, the summary has been printed exactly once and close() has
\* been called.
C4_SummaryAndCloseOnEveryExit ==
    (pc = "main_finally" /\ raised_at \cap BeforeTry = {})
        => (summaries = 1 /\ closes >= 1)

\* C4, without a signal raising KeyboardInterrupt in the finally block: the
\* finally block prints the summary once and closes the sink once on every
\* exit of the loop, an exception of generate_event() or output() included.
C4_FinallyUninterrupted ==
    (pc = "main_finally" /\ raised_at = {}) => (summaries = 1 /\ closes = 1)

C4_FinallyUninterruptedWitness ==
    /\ pc = "main_finally"
    /\ raised_at = {}
    /\ exc = "error"
    /\ summaries = 1
    /\ closes = 1

\* C5: wherever a signal arrives between the opening of the sink and the end
\* of the process, the sink is closed and the summary is printed exactly once.
C5_EverySignalPoint ==
    (pc = "exit" /\ sink_open /\ signals > 0) => (summaries = 1 /\ closes >= 1)

\* C5, for signals that all reach the run's own handler.
C5_HandledSignals ==
    (pc = "exit" /\ signals > 0 /\ ~stray) => (summaries = 1 /\ closes >= 1)

C5_HandledSignalsWitness ==
    /\ pc = "exit"
    /\ signals = MaxSignals
    /\ ~stray
    /\ terminating
    /\ summaries = 1

\* C6: in a continuous run, once terminating is set at most one more output()
\* call completes, no new iteration starts, and the loop test leads to the
\* finally block.
C6_StopsWithinOneIteration ==
    /\ []((count = NoCount /\ terminating) => written <= written_at_stop + 1)
    /\ [][(count = NoCount /\ terminating /\ pc = "loop" /\ pc' # "loop")
            => pc' = "restore_int"]_vars
    /\ [][(count = NoCount /\ terminating /\ pc' = "gen") => pc = "gen"]_vars

C6_Witness ==
    /\ count = NoCount
    /\ terminating
    /\ written = written_at_stop + 1
    /\ pc = "close"
    /\ summaries = 1

\* C7: the number the summary prints is the number of records written to the
\* sink, wherever a signal arrived and whichever way the run ended.
C7_SummaryCountsWritten ==
    summaries >= 1 => printed = written

C7_Witness ==
    /\ summaries = 1
    /\ terminating
    /\ written = written_at_stop + 1
    /\ printed = written
    /\ pc = "exit"

\* C8: terminating is set at most once and never reset; the signal that sets
\* it prints the one notice, a later signal changes nothing and prints nothing.
C8_StopFlagSetOnce ==
    /\ [](notices <= 1 /\ (terminating <=> notices = 1))
    /\ [][terminating => (terminating' /\ notices' = notices)]_vars

C8_Witness ==
    /\ signals = MaxSignals
    /\ ~stray
    /\ terminating
    /\ notices = 1

\* C9: after generate_events_at_rate has exited the SIGINT and SIGTERM
\* handlers are those found at its start, and its own handler is installed
\* only while it runs.
C9_HandlersRestored ==
    exit_status # "killed" =>
        /\ (pc \in {"main_finally", "exit"} /\ original_sigint # "unset")
              => (sigint = original_sigint /\ sigterm = original_sigterm)
        /\ ("signal_handler" \in {sigint, sigterm}) => pc \in RunPositions

\* C9, without a signal raising KeyboardInterrupt between the two restores.
C9_RestoredUninterrupted ==
    (exit_status # "killed" /\ "restore_term" \notin raised_at) =>
        /\ (pc \in {"main_finally", "exit"} /\ original_sigint # "unset")
              => (sigint = original_sigint /\ sigterm = original_sigterm)
        /\ ("signal_handler" \in {sigint, sigterm}) => pc \in RunPositions

\* C10: when output() raises, the record is not counted, no further output()
\* call is made, and control goes to the except clause or the finally block.
C10_FailedOutputEndsRun ==
    /\ [](output_calls > written =>
            (output_calls = written + 1 /\ events_generated = written
             /\ pc \in Draining))
    /\ [][output_calls > written => output_calls' = output_calls]_vars
    /\ [][(pc = "out" /\ exc' = "error")
            => (pc' = "restore_int" /\ events_generated' = events_generated)]_vars

C10_Witness ==
    /\ output_calls = written + 1
    /\ written > 0
    /\ exc = "error"
    /\ pc = "exit"
    /\ summaries = 1
    /\ printed = written

\* C11: a run that was started and received no signal ends with exit status 0,
\* whether it completed or was interrupted from inside; an error raised in the
\* loop by generate_event() or output() does not leave the run as a failure.
C11_RunExitsZero ==
    (pc = "exit" /\ original_sigint # "unset" /\ signals = 0)
        => exit_status = "0"

\* C11, for what the except clause does catch: a KeyboardInterrupt raised in
\* the loop ends in the summary and exit status 0.
C11_InterruptExitsZero ==
    (pc = "exit" /\ original_sigint # "unset" /\ signals = 0 /\ exc # "error")
        => (exit_status = "0" /\ summaries = 1)

\* C12: with rate <= 0, stats interval <= 0, file output without a path, or a
\* broker configuration document that lacks fields, the run never starts: no
\* plugin is built, no file is opened or truncated, nothing is emitted.
C12_NoRunOnConfigurationError ==
    (\/ delay = 0
     \/ stats_interval = 0
     \/ (output_type = "file" /\ ~output_path)
     \/ (output_type = "kafka" /\ kafka_config = "partial"))
        => /\ ~sink_open
           /\ file_state = "unset"
           /\ file = PreviousContent
           /\ producer = "unset"
           /\ original_sigint = "unset"

\* C12, amended: with rate <= 0, stats interval <= 0 or file output without a
\* path, main ends in parser.error (exit status 2) before a plugin is built, a
\* file is opened or truncated, or a record is generated; a broker document
\* that lacks fields is no error, the plugin is built and the run starts.
C12_ArgumentErrorEndsMain ==
    /\ []((delay = 0 \/ stats_interval = 0 \/ (output_type = "file" /\ ~output_path))
            => /\ ~sink_open
               /\ file_state = "unset"
               /\ file = PreviousContent
               /\ producer = "unset"
               /\ original_sigint = "unset"
               /\ output_calls = 0
               /\ events_generated = 0
               /\ pc \in {"args", "exit"}
               /\ (pc = "exit" /\ signals = 0) => exit_status = "2")
    /\ [][(pc = "create" /\ output_type = "kafka" /\ kafka_config = "partial"
            /\ signals' = signals /\ pc' # "create")
            => (pc' = "opened" /\ sink_open')]_vars

C12_Witness ==
    /\ pc = "exit"
    /\ exit_status = "2"
    /\ delay = 0
    /\ output_type = "file"
    /\ output_path
    /\ file = PreviousContent
    /\ file_state = "unset"

\* C13: after a signal has stopped a continuous run that writes to a file and
\* has emitted a record, the output holds "Event generation interrupted", and
\* the file holds at least one line, every non-blank line a JSON object.
C13_InterruptedContinuousFileRun ==
    (/\ pc = "exit"
     /\ exit_status = "0"
     /\ count = NoCount
     /\ output_type = "file"
     /\ notices = 1
     /\ written >= 1)
        => /\ \E line \in Transcript : Contains(line, Test10Text)
           /\ line_count(file) > 0
           /\ validate_json_lines(file)

\* C13, for what the program does print: the notice of signal_handler is in
\* the output, and the file holds one valid line for each record written.
C13_FileOfInterruptedRun ==
    (/\ pc = "exit"
     /\ exit_status = "0"
     /\ count = NoCount
     /\ output_type = "file"
     /\ notices = 1
     /\ written >= 1)
        => /\ SignalNotice \in Transcript
           /\ line_count(file) = written
           /\ validate_json_lines(file)

\* C14: the summary line carries the interruption wording exactly when the
\* run was cancelled, with a count configured or not.
C14_InterruptedSummary ==
    summaries >= 1 =>
        (Cancelled <=> Contains(SummaryLine(count, printed), <<"interruption.">>))

\* C14, for what the summary does follow: the wording depends on the count
\* alone, and a cancelled run has printed its notice before the summary.
C14_SummaryFollowsCount ==
    summaries >= 1 =>
        /\ (count = NoCount <=> Contains(SummaryLine(count, printed), <<"interruption.">>))
        /\ Cancelled => (SignalNotice \in Transcript \/ UserNotice \in Transcript)

\* C15: time.sleep is entered only from a test that found terminating unset
\* and, with a count configured, records still to emit; after the record that
\* reaches the count there is no sleep before the summary.
C15_NoSleepAfterLastRecord ==
    /\ [](pc = "sleep" => (count = NoCount \/ events_generated < count))
    /\ []((count > 0 /\ events_generated = count)
            => pc \notin {"loop", "gen", "out", "sleep"})
    /\ [][(pc # "sleep" /\ pc' = "sleep")
            => (~terminating /\ sleep_time > 0 /\ pc = "sleep_test")]_vars

C15_Witness ==
    /\ pc = "break_test"
    /\ count = MaxCount
    /\ events_generated = count
    /\ sleep_time > 0
    /\ ~terminating

\* C16: the sleep computed after the n-th emission is
\* max(0, start_time + n/rate - now); the next emission does not begin before
\* start_time + n/rate, a sleep ends at that deadline whatever the lateness of
\* earlier iterations, and an iteration past its deadline gets no sleep.
C16_DeadlineLaw ==
    /\ [](pc \in {"activity", "stats", "sleep_test", "sleep"}
            => sleep_time = Max(0, start_time + events_generated * delay - now))
    /\ [](pc \in {"gen", "out"} => now >= start_time + events_generated * delay)
    /\ [][(pc = "sleep" /\ pc' = "break_test")
            => now' = start_time + events_generated * delay]_vars
    /\ [][(pc = "sleep_test" /\ now > start_time + events_generated * delay)
            => pc' # "sleep"]_vars

C16_Witness ==
    /\ pc = "sleep"
    /\ events_generated = 2
    /\ now > start_time + delay
    /\ sleep_time > 0
    /\ sleep_time < delay

\* C17: with the terminal plugin no statistics block is printed and no
\* activity line is rewritten, whatever the interval and the length of the run.
C17_TerminalShowsNoStats ==
    output_type = "terminal" =>
        (stats_blocks = 0 /\ activity_lines = 0 /\ ~stats_displayed)

C17_Witness ==
    /\ output_type = "terminal"
    /\ pc = "sleep_test"
    /\ events_generated >= 2
    /\ now - last_stats_time >= 2 * stats_interval
    /\ stats_blocks = 0

\* C18: a second close() of a plugin repeats no flush and no release: the
\* producer is flushed and closed at most once, the file released at most once.
C18_SecondCloseRepeatsNothing ==
    closes >= 2 => (flushes <= 1 /\ producer_closes <= 1 /\ releases <= 1)

\* C18, for the terminal and file plugins and a broker plugin without a
\* producer: a second close() leaves the plugin and the file as they were.
C18_SecondCloseWithoutProducer ==
    [][(closes >= 1 /\ closes' = closes + 1 /\ producer # "live")
        => UNCHANGED plugin]_vars

\* C20: a broker plugin without a producer (package missing, or
\* KafkaProducer(...) raised) is built all the same; each output() call prints
\* its "Would send" line and returns, so the record is counted; close() calls
\* nothing; no output() call of the run fails.
C20_DegradedBrokerPlugin ==
    /\ [][(pc = "create" /\ output_type = "kafka" /\ signals' = signals
            /\ pc' # "create")
            => (pc' = "opened" /\ sink_open' /\ producer' \in {"none", "live"}
                /\ (~KAFKA_AVAILABLE => producer' = "none"))]_vars
    /\ []((output_type = "kafka" /\ producer = "none")
            => /\ would_send = output_calls
               /\ written = output_calls
               /\ sends = 0
               /\ flushes = 0
               /\ producer_closes = 0)
    /\ [][(output_type = "kafka" /\ producer = "none" /\ pc = "out"
            /\ output_calls' # output_calls)
            => (pc' = "incr" /\ would_send' = would_send + 1)]_vars

C20_Witness ==
    /\ pc = "exit"
    /\ exit_status = "0"
    /\ output_type = "kafka"
    /\ KAFKA_AVAILABLE
    /\ producer = "none"
    /\ count = MaxCount
    /\ would_send = MaxCount
    /\ events_generated = MaxCount
    /\ closes = 2

\* C19: after k output() calls on a file plugin and close(), the file holds k
\* lines in the order of the calls, each ended by its one newline, and
\* json.loads of line k gives the k-th record.
C19_FileRoundTrip ==
    file_state = "closed" =>
        LET ls == Lines(file) IN
            /\ buffer = <<>>
            /\ Len(ls) = Len(emitted)
            /\ \A k \in 1..Len(ls) :
                LET line == ls[k]
                    text == SubSeq(line, 1, Len(line) - 1)
                IN /\ line[Len(line)] = NEWLINE
                   /\ Loads(text).ok
                   /\ Loads(text).val = emitted[k]

C19_Witness ==
    /\ file_state = "closed"
    /\ closes = 2
    /\ Len(emitted) = MaxRecords
    /\ emitted[1].name = <<BACKSLASH, "n">>
    /\ emitted[MaxRecords].name = <<NEWLINE, QUOTE>>
    /\ Len(Lines(file)) = MaxRecords

\* C23: in the finally clause the handlers are put back, then the plugin is
\* closed, then the summary is printed: a printed summary follows a close().
C23_CloseBeforeSummary ==
    summaries >= 1 => closes >= 1

\* C23, the order of the code: the summary is printed from the position after
\* the second signal.signal call and before any close(); the first close()
\* comes after it unless an exception has left the finally clause.
C23_RestoreSummaryClose ==
    /\ [][pc' = "summary" => pc \in {"restore_term", "summary"}]_vars
    /\ [][summaries' # summaries
            => (pc = "summary" /\ closes = 0 /\ pc' = "close")]_vars
    /\ [][(closes = 0 /\ closes' = 1 /\ raised_at = {} /\ pc # "plugin")
            => (pc = "close" /\ summaries = 1)]_vars

\* C24: a statistics block is printed only at a check that finds
\* now - last_stats_time >= stats_interval; the block leaves last_stats_time at
\* the time of the check and last_stats_count at events_generated;
\* last_stats_count never exceeds events_generated, last_stats_time never
\* decreases, and the two divisions of the block (by the time since the last
\* block, by the time since the start) have a positive divisor.
C24_StatsLaw ==
    /\ [][stats_blocks' # stats_blocks
            => /\ pc = "stats"
               /\ stats_blocks' = stats_blocks + 1
               /\ now - last_stats_time >= stats_interval
               /\ last_stats_time' = now
               /\ last_stats_count' = events_generated
               /\ now - last_stats_time > 0
               /\ now - start_time > 0]_vars
    /\ [](last_stats_count <= events_generated)
    /\ [][last_stats_time' >= last_stats_time]_vars

C24_Witness ==
    /\ pc = "stats"
    /\ stats_blocks = 2
    /\ last_stats_count = 2
    /\ events_generated = 3
    /\ last_stats_time > start_time
    /\ now - last_stats_time < stats_interval

\* C25: while the run is in its loop with a plugin that shows statistics, a
\* report is printed whenever stats_interval has gone by since the last one,
\* records or no records: when the next record is about to be produced, no
\* report is overdue.
C25_ReportWheneverIntervalElapsed ==
    (should_display_stats(output_type) /\ pc \in {"loop", "gen"} /\ ~terminating)
        => now - last_stats_time <= stats_interval

\* C25, what the code does: the interval is tested once per iteration, after
\* the record of the iteration was written, so there are never more reports
\* than records and a report is printed at every test that finds the interval
\* elapsed.
C25_ReportsFollowEmissions ==
    /\ [](stats_blocks <= events_generated)
    /\ [][stats_blocks' # stats_blocks => pc = "stats"]_vars
    /\ [][(pc = "stats" /\ pc' = "sleep_test" /\ output_type # "terminal"
            /\ now - last_stats_time >= stats_interval)
            => stats_blocks' = stats_blocks + 1]_vars

\* C29: no output() call follows a close() of the plugin: each output() call
\* is made while the plugin has not been closed, a close() writes no record,
\* and once the plugin is closed the run never is in its loop again.
C29_NoOutputAfterClose ==
    /\ [][output_calls' # output_calls => (closes = 0 /\ closes' = 0)]_vars
    /\ [][closes' # closes
            => (output_calls' = output_calls /\ written' = written)]_vars
    /\ [](closes >= 1 => pc \notin TryBody)

C29_Witness ==
    /\ pc = "exit"
    /\ closes = 2
    /\ terminating
    /\ written >= 1
    /\ output_calls > written

\* C26: when standard output is not a terminal, no cursor-up or clear-line
\* sequence is written during the run.
C26_NoCursorSequencesOffTerminal ==
    ~isatty => escapes = 0

\* C26, the two writers apart: off a terminal the statistics blocks are
\* printed one after the other without a sequence, and each rewritten
\* activity line writes one; on a terminal each block after the first writes
\* one more.
C26_SequencesByWriter ==
    ~isatty => escapes = activity_lines

\* C26, on a terminal: each statistics block after the first writes one more.
C26_SequencesOnTerminal ==
    isatty => escapes = activity_lines + Max(0, stats_blocks - 1)

\* C30: generate_events_at_rate called with rate = 0 and a count, with a
\* generator and a plugin that do not fail and no signal, returns without an
\* exception after count records were written.
C30_ZeroRateRunCompletes ==
    (/\ pc = "main_finally"
     /\ delay = 0
     /\ count # NoCount
     /\ signals = 0
     /\ user_notices = 0
     /\ exc # "error")
        => (exc = "none" /\ written = count /\ events_generated = count)

\* C30, what the code does with rate = 0: the first record is written and
\* counted, then the deadline computation raises; nothing sleeps, the summary
\* is printed and the plugin closed by the finally clause.
C30_ZeroRateStopsAtFirstRecord ==
    /\ [](delay = 0 => (events_generated <= 1 /\ pc # "sleep"
                           /\ pc \notin {"activity", "stats", "sleep_test"}))
    /\ []((delay = 0 /\ exc = "ZeroDivisionError")
            => (events_generated = 1 /\ pc \notin TryBody))
    /\ [][(pc = "pace" /\ delay = 0 /\ pc' # "pace" /\ signals' = signals)
            => (exc' = "ZeroDivisionError" /\ pc' = "restore_int")]_vars

\* C21: every message of a broker plugin with a producer carries the record
\* given to output() as its value and goes to the plugin's topic; its key is
\* the record's value under key_field when a key field is configured and the
\* record has it, and None otherwise; every output() call returns.
C21_MessageKeyAndValue ==
    (output_type = "kafka" /\ producer = "live") =>
        /\ Len(sent) = Len(emitted)
        /\ written = output_calls
        /\ \A k \in 1..Len(sent) :
            /\ sent[k].value = emitted[k]
            /\ sent[k].topic = topic
            /\ sent[k].key = IF key_field # "None" /\ key_field \in DOMAIN emitted[k]
                             THEN <<emitted[k][key_field]>>
                             ELSE <<>>

C21_Witness ==
    /\ producer = "live"
    /\ key_field = "id"
    /\ Len(sent) = 2
    /\ sent[1].key = <<>>
    /\ sent[1].value = [name |-> <<"n">>]
    /\ sent[2].key = << <<"p">> >>
    /\ "id" \in DOMAIN sent[2].value

\* C27: a broker plugin built from a configuration document holds, of the
\* document, only the allow-listed producer keys (with the document's values)
\* and the mapped security settings, the SASL user name and password only
\* when the document has both; whatever else the document holds, the plugin
\* is built; topic and key_field are the document's where it defines them and
\* the inline parameters otherwise.
C27_SettingsFromDocument ==
    /\ []((pc = "opened" /\ output_type = "kafka" /\ KAFKA_AVAILABLE
            /\ kafka_config # "none")
            => LET cfg == self_kafka_config
                   has(k) == k \in DOMAIN document
               IN /\ DOMAIN cfg \subseteq
                        producer_keys \cup {"security_protocol", "sasl_mechanism",
                            "sasl_plain_username", "sasl_plain_password",
                            "value_serializer", "key_serializer"}
                  /\ \A k \in producer_keys :
                        /\ k \in DOMAIN cfg <=> has(k)
                        /\ has(k) => cfg[k] = document[k]
                  /\ "security_protocol" \in DOMAIN cfg <=> has("security.protocol")
                  /\ "sasl_mechanism" \in DOMAIN cfg <=> has("sasl.mechanisms")
                  /\ "sasl_plain_username" \in DOMAIN cfg
                        <=> (has("sasl.username") /\ has("sasl.password"))
                  /\ "sasl_plain_password" \in DOMAIN cfg
                        <=> (has("sasl.username") /\ has("sasl.password"))
                  /\ "sasl_plain_username" \in DOMAIN cfg
                        => /\ cfg["sasl_plain_username"] = document["sasl.username"]
                           /\ cfg["sasl_plain_password"] = document["sasl.password"]
                  /\ topic = IF has("topic") THEN document["topic"] ELSE kwargs.topic
                  /\ key_field = IF has("key_field") THEN document["key_field"]
                                 ELSE kwargs.key_field)
    /\ [][(pc = "create" /\ output_type = "kafka" /\ pc' # pc)
            => (pc' = "opened" /\ sink_open')]_vars

C27_Witness ==
    /\ pc = "opened"
    /\ KAFKA_AVAILABLE
    /\ kafka_config = "file"
    /\ DOMAIN document = {"sasl.username", "group_id", "acks", "key_field"}
    /\ kwargs.key_field = "id"
    /\ DOMAIN self_kafka_config = {"acks", "value_serializer", "key_serializer"}
    /\ key_field = "name"
    /\ topic = "events"

\* C28: get_output_plugin never gives None: asked for a registered name it
\* gives a new object of the registered class, built with the arguments of
\* the call (or the constructor's exception goes on); asked for any other
\* name it raises ValueError and no plugin is constructed; what a caller does
\* to the mapping get_available_plugins returned does not change the registry.
C28_FactoryAndCopy ==
    /\ [](result.kind # "None")
    /\ [][lookups' # lookups
            => LET name == result'.name IN
                /\ name \in DOMAIN _plugins
                    => /\ result'.kind \in {"instance", "raised"}
                       /\ result'.class = _plugins[name]
                       /\ result'.args \in PluginArgs
                       /\ built' = IF result'.kind = "instance"
                                    THEN built + 1 ELSE built
                /\ name \notin DOMAIN _plugins
                    => (result'.kind = "ValueError" /\ built' = built)]_vars
    /\ [][(returned' # returned /\ returned' # _plugins)
            => _plugins' = _plugins]_vars

C28_Witness ==
    /\ lookups = 2
    /\ built = 1
    /\ result.kind = "ValueError"
    /\ result.name = "custom"
    /\ "file" \in DOMAIN _plugins
    /\ "file" \notin DOMAIN returned
    /\ "custom" \in DOMAIN returned

\* C22: validate_schema.py started with the schema file and the data file as
\* two positional arguments, on a data file whose items all conform, prints
\* "All data is valid" and exits with status 0.
C22_TwoPositionalArguments ==
    (/\ pc = "exit"
     /\ argv.positionals = 2
     /\ ~argv.data_file
     /\ ~argv.kafka
     /\ \A k \in 1..Len(data) : data[k] = "valid")
        => (exit_status = "0" /\ Contains(verdict, <<"All", "data", "is", "valid">>))

\* C22, with the data file given as --data-file: when schema and data can be
\* read, every item is validated; the program prints "All data is valid" and
\* exits with status 0 exactly when all of them conform.
C22_DataFileOption ==
    /\ []((pc = "exit" /\ argv.positionals # 1) => exit_status = "2")
    /\ [](Contains(verdict, <<"All", "data", "is", "valid">>)
            => /\ exit_status = "0"
               /\ argv.positionals = 1 /\ argv.data_file /\ ~argv.kafka
               /\ \A k \in 1..Len(data) : data[k] = "valid")
    /\ []((pc = "exit" /\ \E k \in 1..Len(data) : data[k] = "invalid")
            => (exit_status # "0" \/ argv.kafka))

====
